---- MODULE Spec2Model ----
(***************************************************************************)
(* terraform-provider-tfsync: the tfsync_s3_object resource.               *)
(*                                                                         *)
(* The resource mirrors the current state version of a Terraform Cloud     *)
(* workspace into an S3 object.  The model has the two remote services     *)
(* (the workspaces' current state versions, the bucket objects), the       *)
(* record Terraform keeps for the resource, and the handlers of            *)
(* S3ObjectResource: Create, Read, Update, Delete, ImportState.  Terraform *)
(* runs one handler at a time, but the handlers hold no lock on the two    *)
(* services: Create, Read and Update wait for the version lookup, for the  *)
(* download, for the put or the get and, in Read, for the object's body,   *)
(* and either service can change while they wait.  Each of them is         *)
(* therefore one action per answer it waits for; the download reads the    *)
(* immutable state version the lookup named, the body is that of the       *)
(* object GetObject answered with.                                         *)
(* Every handler leaves a log of the remote calls it issued and the        *)
(* diagnostics it returned.                                                *)
(***************************************************************************)
EXTENDS Integers, Sequences, FiniteSets, TLC

VARIABLES
    tfe,        \* workspace id -> its current state version, if any
    s3,         \* <<bucket, key>> -> the object stored there, if any
    tfstate,    \* <<>> or <<record>>: the resource as persisted by Terraform
    imported,   \* <<>> or <<record>>: an import awaiting its Read
    pending,    \* <<>> or <<call>>: a handler between its fetch and the bucket
    last,       \* the most recent handler call: request and response
    calls       \* the remote calls issued by the most recent handler call

vars == <<tfe, s3, tfstate, imported, pending, last, calls>>

\* ---------------------------------------------------------------------
\* Input domains
\* ---------------------------------------------------------------------
WorkspaceIds == {"ws-1", "ws-2"}

BucketNames == {"", "b1", "b2"}

KeyNames == {"", "k1"}

KmsKeyIds == {"kms-1"}

\* state files and object bodies, as byte sequences: empty, "{}" and "[]"
Contents == {<<>>, <<123, 125>>, <<91, 93>>}

\* the state files a run in the workspace can leave as its current version
StateFiles(w) == IF w = "ws-1" THEN Contents ELSE {<<123, 125>>}

\* what somebody else writes to an object
ForeignContents == {<<91, 93>>}

\* the objects the bucket service can hold
ObjectLocs == (BucketNames \ {""}) \X (KeyNames \ {""})

\* tags, keys and values as sequences of characters
TagPairs ==
    << <<(<<"a">>), (<<"1">>)>>,
       <<(<<"b">>), (<<"x", " ", "y">>)>>,
       <<(<<"c", "&">>), (<<"=">>)>>,
       <<(<<"%">>), (<<"+", "d">>)>> >>

\* the largest number of tags on a resource
MaxTags == 2

\* the mapping with the first n tags
TagMap(n) == [k \in {TagPairs[i][1] : i \in 1..n} |->
                (CHOOSE p \in {TagPairs[i] : i \in 1..n} : p[1] = k)[2]]

TagMaps == {TagMap(n) : n \in 1..(IF MaxTags < Len(TagPairs) THEN MaxTags ELSE Len(TagPairs))}

ImportIds == {"ws-1/b1/k1", "other"}

\* ---------------------------------------------------------------------
\* terraform-plugin-framework attribute values (types.String, types.Bool,
\* types.Map): null, unknown or known
\* ---------------------------------------------------------------------
StringValue(s) == [state |-> "known", value |-> s]

StringNull == [state |-> "null", value |-> ""]

StringUnknown == [state |-> "unknown", value |-> ""]

ValueString(v) == IF v.state = "known" THEN v.value ELSE ""

BoolValue(b) == [state |-> "known", value |-> b]

BoolNull == [state |-> "null", value |-> FALSE]

BoolUnknown == [state |-> "unknown", value |-> FALSE]

ValueBool(v) == IF v.state = "known" THEN v.value ELSE FALSE

MapValue(m) == [state |-> "known", elems |-> m]

MapNull == [state |-> "null", elems |-> <<>>]

\* Map.ElementsAs into a map[string]string: a null map gives the nil map
ElementsAs(v) == IF v.state = "known" THEN v.elems ELSE <<>>

\* ---------------------------------------------------------------------
\* Diagnostics
\* ---------------------------------------------------------------------
ErrorDiag(summary, detail) ==
    [severity |-> "error", summary |-> summary, detail |-> detail]

WarningDiag(summary, detail) ==
    [severity |-> "warning", summary |-> summary, detail |-> detail]

HasError(diags) == \E i \in 1..Len(diags) : diags[i].severity = "error"

ErrorCount(diags) == Cardinality({i \in 1..Len(diags) : diags[i].severity = "error"})

WarningCount(diags) == Cardinality({i \in 1..Len(diags) : diags[i].severity = "warning"})

\* ---------------------------------------------------------------------
\* crypto/sha256 (FIPS 180-4), as called by sha256Contents.  A 32-bit word
\* is a pair <<high 16 bits, low 16 bits>>.
\* ---------------------------------------------------------------------
Pow2(n) == 2^n

Bit(a, i) == (a \div Pow2(i)) % 2

\* exclusive or and conjunction of two 16-bit values, bit by bit from bit i
RECURSIVE XorBits(_, _, _)
XorBits(a, b, i) ==
    IF i > 15 THEN 0
    ELSE (((Bit(a, i) + Bit(b, i)) % 2) * Pow2(i)) + XorBits(a, b, i + 1)

Xor16(a, b) == XorBits(a, b, 0)

RECURSIVE AndBits(_, _, _)
AndBits(a, b, i) ==
    IF i > 15 THEN 0
    ELSE ((Bit(a, i) * Bit(b, i)) * Pow2(i)) + AndBits(a, b, i + 1)

And16(a, b) == AndBits(a, b, 0)

WXor(a, b) == <<Xor16(a[1], b[1]), Xor16(a[2], b[2])>>

WAnd(a, b) == <<And16(a[1], b[1]), And16(a[2], b[2])>>

WNot(a) == <<65535 - a[1], 65535 - a[2]>>

WAdd(a, b) ==
    LET lo == a[2] + b[2]
    IN  <<(a[1] + b[1] + (lo \div 65536)) % 65536, lo % 65536>>

RotR(a, n) ==
    LET w == IF n >= 16 THEN <<a[2], a[1]>> ELSE a
        m == IF n >= 16 THEN n - 16 ELSE n
    IN  IF m = 0 THEN w
        ELSE <<(w[1] \div Pow2(m)) + ((w[2] % Pow2(m)) * Pow2(16 - m)),
               (w[2] \div Pow2(m)) + ((w[1] % Pow2(m)) * Pow2(16 - m))>>

ShR(a, n) ==
    <<a[1] \div Pow2(n), (a[2] \div Pow2(n)) + ((a[1] % Pow2(n)) * Pow2(16 - n))>>

Sha256K ==
    <<
    <<17034, 12184>>, <<28983, 17553>>, <<46528, 64463>>, <<59829, 56229>>,
    <<14678, 49755>>, <<23025, 4593>>, <<37439, 33444>>, <<43804, 24277>>,
    <<55303, 43672>>, <<4739, 23297>>, <<9265, 34238>>, <<21772, 32195>>,
    <<29374, 23924>>, <<32990, 45566>>, <<39900, 1703>>, <<49563, 61812>>,
    <<58523, 27073>>, <<61374, 18310>>, <<4033, 40390>>, <<9228, 41420>>,
    <<11753, 11375>>, <<19060, 33962>>, <<23728, 43484>>, <<30457, 35034>>,
    <<38974, 20818>>, <<43057, 50797>>, <<45059, 10184>>, <<48985, 32711>>,
    <<50912, 3059>>, <<54695, 37191>>, <<1738, 25425>>, <<5161, 10599>>,
    <<10167, 2693>>, <<11803, 8504>>, <<19756, 28156>>, <<21304, 3347>>,
    <<25866, 29524>>, <<30314, 2747>>, <<33218, 51502>>, <<37490, 11397>>,
    <<41663, 59553>>, <<43034, 26187>>, <<49739, 35696>>, <<51052, 20899>>,
    <<53650, 59417>>, <<54937, 1572>>, <<62478, 13701>>, <<4202, 41072>>,
    <<6564, 49430>>, <<7735, 27656>>, <<10056, 30540>>, <<13488, 48309>>,
    <<14620, 3251>>, <<20184, 43594>>, <<23452, 51791>>, <<26670, 28659>>,
    <<29839, 33518>>, <<30885, 25455>>, <<33992, 30740>>, <<36039, 520>>,
    <<37054, 65530>>, <<42064, 27883>>, <<48889, 41975>>, <<50801, 30962>>
    >>

Sha256Init ==
    <<
    <<27145, 58983>>, <<47975, 44677>>, <<15470, 62322>>, <<42319, 62778>>,
    <<20750, 21119>>, <<39685, 26764>>, <<8067, 55723>>, <<23520, 52505>>
    >>

Ch(e, f, g) == WXor(WAnd(e, f), WAnd(WNot(e), g))

Maj(a, b, c) == WXor(WXor(WAnd(a, b), WAnd(a, c)), WAnd(b, c))

BigSigma0(a) == WXor(WXor(RotR(a, 2), RotR(a, 13)), RotR(a, 22))

BigSigma1(e) == WXor(WXor(RotR(e, 6), RotR(e, 11)), RotR(e, 25))

SmallSigma0(w) == WXor(WXor(RotR(w, 7), RotR(w, 18)), ShR(w, 3))

SmallSigma1(w) == WXor(WXor(RotR(w, 17), RotR(w, 19)), ShR(w, 10))

\* the message with the 0x80 byte, the zero fill and the 64-bit bit length
\* (messages here are far shorter than 2^16 bits)
Sha256Pad(msg) ==
    LET len  == Len(msg)
        fill == (119 - len) % 64
        bits == 8 * len
    IN  msg \o <<128>> \o [i \in 1..fill |-> 0]
            \o <<0, 0, 0, 0, 0, 0, bits \div 256, bits % 256>>

\* the sixteen big-endian words of block number blk (from 0)
Sha256Words(padded, blk) ==
    [t \in 1..16 |->
        LET o == (64 * blk) + (4 * (t - 1))
        IN  <<(padded[o + 1] * 256) + padded[o + 2],
              (padded[o + 3] * 256) + padded[o + 4]>>]

RECURSIVE Sha256Schedule(_)
Sha256Schedule(w) ==
    IF Len(w) = 64 THEN w
    ELSE LET t == Len(w) + 1
         IN  Sha256Schedule(Append(w,
                 WAdd(WAdd(SmallSigma1(w[t - 2]), w[t - 7]),
                      WAdd(SmallSigma0(w[t - 15]), w[t - 16]))))

\* round t of the compression function on the working variables a..h
Sha256Step(s, w, t) ==
    LET t1 == WAdd(WAdd(WAdd(s[8], BigSigma1(s[5])),
                        WAdd(Ch(s[5], s[6], s[7]), Sha256K[t])), w[t])
        t2 == WAdd(BigSigma0(s[1]), Maj(s[1], s[2], s[3]))
    IN  <<WAdd(t1, t2), s[1], s[2], s[3], WAdd(s[4], t1), s[5], s[6], s[7]>>

\* the working variables after rounds 1..64: tr holds the values after
\* rounds 0..Len(tr)-1, each computed from the one before
RECURSIVE Sha256Rounds(_, _)
Sha256Rounds(tr, w) ==
    IF Len(tr) = 65 THEN tr[65]
    ELSE Sha256Rounds(Append(tr, Sha256Step(tr[Len(tr)], w, Len(tr))), w)

RECURSIVE Sha256Blocks(_, _, _)
Sha256Blocks(h, padded, blk) ==
    IF 64 * blk >= Len(padded) THEN h
    ELSE LET w == Sha256Schedule(Sha256Words(padded, blk))
             s == Sha256Rounds(<<h>>, w)
         IN  Sha256Blocks([i \in 1..8 |-> WAdd(h[i], s[i])], padded, blk + 1)

\* sha256.Sum256: the digest as eight words
Sum256(msg) == Sha256Blocks(Sha256Init, Sha256Pad(msg), 0)

HexDigit(n) ==
    CASE n = 0 -> "0" [] n = 1 -> "1" [] n = 2 -> "2" [] n = 3 -> "3"
      [] n = 4 -> "4" [] n = 5 -> "5" [] n = 6 -> "6" [] n = 7 -> "7"
      [] n = 8 -> "8" [] n = 9 -> "9" [] n = 10 -> "a" [] n = 11 -> "b"
      [] n = 12 -> "c" [] n = 13 -> "d" [] n = 14 -> "e" [] n = 15 -> "f"

Hex16(h) ==
    HexDigit(h \div 4096) \o HexDigit((h \div 256) % 16)
        \o HexDigit((h \div 16) % 16) \o HexDigit(h % 16)

\* hex.EncodeToString of the 32 digest bytes
RECURSIVE EncodeToString(_, _)
EncodeToString(words, i) ==
    IF i > Len(words) THEN ""
    ELSE Hex16(words[i][1]) \o Hex16(words[i][2]) \o EncodeToString(words, i + 1)


\* the digests of the contents the model uses, computed once
Sha256Hex == [c \in Contents |-> EncodeToString(Sum256(c), 1)]

\* sha256Contents: the hex digest of the bytes, as a known string
sha256Contents(contents) ==
    StringValue(IF contents \in Contents THEN Sha256Hex[contents]
                ELSE EncodeToString(Sum256(contents), 1))

\* ---------------------------------------------------------------------
\* The resource: provider data, record, identifier
\* ---------------------------------------------------------------------
\* S3ObjectResource as NewS3ObjectResource returns it
NewS3ObjectResource == [softDelete |-> FALSE, tfeClient |-> FALSE, s3Client |-> FALSE]

\* what the provider hands to Configure: nothing (<<>>) or the clients
\* (TRUE: a client, FALSE: nil) and the provider-wide soft-delete default
ProviderDatas ==
    {<<>>,
     <<[softDelete |-> FALSE, tfeClient |-> TRUE, s3Client |-> TRUE]>>,
     <<[softDelete |-> TRUE, tfeClient |-> TRUE, s3Client |-> TRUE]>>,
     <<[softDelete |-> FALSE, tfeClient |-> FALSE, s3Client |-> TRUE]>>,
     <<[softDelete |-> FALSE, tfeClient |-> TRUE, s3Client |-> FALSE]>>}

\* S3ObjectResource.Configure on a fresh resource
Configure(pd) ==
    IF pd = <<>> THEN NewS3ObjectResource
    ELSE [softDelete |-> pd[1].softDelete,
          tfeClient  |-> pd[1].tfeClient,
          s3Client   |-> pd[1].s3Client]

\* variant: the check of the state client is missing
validateS3ObjectResourceS3Only(r) ==
    IF ~r.s3Client THEN <<ErrorDiag("provider", "nil s3 client")>>
    ELSE <<>>

validateS3ObjectResource(r) ==
    IF ~r.s3Client THEN <<ErrorDiag("provider", "nil s3 client")>>
    ELSE IF ~r.tfeClient THEN <<ErrorDiag("provider", "nil tfe client")>>
    ELSE <<>>

\* the attributes a configuration sets (Required or Optional in the schema)
AllConfigs ==
    [workspace_id : {StringValue(w) : w \in WorkspaceIds},
     bucket       : {StringValue(b) : b \in BucketNames},
     key          : {StringValue(k) : k \in KeyNames},
     kms_key_id   : {StringNull} \cup {StringValue(k) : k \in KmsKeyIds},
     ignore_empty : {BoolNull, BoolValue(FALSE), BoolValue(TRUE)},
     soft_delete  : {BoolNull, BoolValue(FALSE), BoolValue(TRUE)},
     tags         : {MapNull} \cup {MapValue(m) : m \in TagMaps}]

\* the plain configuration: the required attributes and nothing else
BaseConfig ==
    [workspace_id |-> StringValue("ws-1"), bucket |-> StringValue("b1"),
     key |-> StringValue("k1"), kms_key_id |-> StringNull,
     ignore_empty |-> BoolNull, soft_delete |-> BoolNull, tags |-> MapNull]

\* the configurations Terraform plans with: the plain one and those that
\* set one attribute differently
Configs ==
    {cfg \in AllConfigs :
        \E a \in DOMAIN BaseConfig :
            \A b \in DOMAIN BaseConfig \ {a} : cfg[b] = BaseConfig[b]}

\* S3ObjectResourceModel as decoded from a plan: the configuration, the
\* computed attributes unknown, id as the plan modifier leaves it
PlanModel(cfg, id) ==
    [id                     |-> id,
     workspace_id           |-> cfg.workspace_id,
     bucket                 |-> cfg.bucket,
     key                    |-> cfg.key,
     state_contents_sha256  |-> StringUnknown,
     bucket_contents_sha256 |-> StringUnknown,
     kms_key_id             |-> cfg.kms_key_id,
     ignore_empty           |-> cfg.ignore_empty,
     ignored                |-> BoolUnknown,
     soft_delete            |-> cfg.soft_delete,
     tags                   |-> cfg.tags]

\* stringplanmodifier.UseStateForUnknown on id
UseStateForUnknown(prior) ==
    IF prior.id.state = "null" THEN StringUnknown ELSE prior.id

\* the record ImportStatePassthroughID leaves: id set, the rest null
ImportedModel(id) ==
    [id                     |-> StringValue(id),
     workspace_id           |-> StringNull,
     bucket                 |-> StringNull,
     key                    |-> StringNull,
     state_contents_sha256  |-> StringNull,
     bucket_contents_sha256 |-> StringNull,
     kms_key_id             |-> StringNull,
     ignore_empty           |-> BoolNull,
     ignored                |-> BoolNull,
     soft_delete            |-> BoolNull,
     tags                   |-> MapNull]

newS3ObjectResourceID(data) ==
    StringValue(ValueString(data.workspace_id) \o "/"
                    \o ValueString(data.bucket) \o "/" \o ValueString(data.key))

\* ---------------------------------------------------------------------
\* Tag serialization (newTags)
\* ---------------------------------------------------------------------
\* the bytes of the characters that occur in tag keys and values
CharCode(c) ==
    CASE c = " " -> 32 [] c = "%" -> 37 [] c = "&" -> 38 [] c = "+" -> 43
      [] c = "1" -> 49 [] c = "=" -> 61 [] c = "a" -> 97 [] c = "b" -> 98
      [] c = "c" -> 99 [] c = "d" -> 100 [] c = "x" -> 120 [] c = "y" -> 121

UpperHexDigit(n) ==
    CASE n = 0 -> "0" [] n = 1 -> "1" [] n = 2 -> "2" [] n = 3 -> "3"
      [] n = 4 -> "4" [] n = 5 -> "5" [] n = 6 -> "6" [] n = 7 -> "7"
      [] n = 8 -> "8" [] n = 9 -> "9" [] n = 10 -> "A" [] n = 11 -> "B"
      [] n = 12 -> "C" [] n = 13 -> "D" [] n = 14 -> "E" [] n = 15 -> "F"

\* url.QueryEscape leaves letters, digits and - _ . ~ alone
Unreserved(c) == c \in {"1", "a", "b", "c", "d", "x", "y"}

\* variant: keys and values are written as they are
QueryEscapeVerbatim(str) == str

\* url.QueryEscape, on a sequence of characters
RECURSIVE QueryEscape(_)
QueryEscape(str) ==
    IF str = <<>> THEN <<>>
    ELSE LET c == Head(str)
             e == IF Unreserved(c) THEN <<c>>
                  ELSE IF c = " " THEN <<"+">>
                  ELSE <<"%", UpperHexDigit(CharCode(c) \div 16),
                         UpperHexDigit(CharCode(c) % 16)>>
         IN  e \o QueryEscape(Tail(str))

\* the orders in which a range over the map can visit its keys
RECURSIVE KeyOrders(_)
KeyOrders(keys) ==
    IF keys = {} THEN {<<>>}
    ELSE UNION {{<<k>> \o rest : rest \in KeyOrders(keys \ {k})} : k \in keys}

\* newTags, the map visited in the given order
RECURSIVE newTags(_, _)
newTags(tags, order) ==
    IF order = <<>> THEN <<>>
    ELSE LET k    == Head(order)
             pair == QueryEscape(k) \o <<"=">> \o QueryEscape(tags[k])
         IN  IF Len(order) = 1 THEN pair
             ELSE pair \o <<"&">> \o newTags(tags, Tail(order))

\* ---------------------------------------------------------------------
\* The two remote services and their clients.  A handler call has at most
\* one injected transport fault, named after the client call it hits.
\* ---------------------------------------------------------------------
NoVersion == [current |-> FALSE, state |-> <<>>]

Version(c) == [current |-> TRUE, state |-> c]

NoObject == [exists |-> FALSE, body |-> <<>>]

Object(c) == [exists |-> TRUE, body |-> c]

ErrResourceNotFound == "resource not found"

\* error of client.StateVersions.ReadCurrent ("" for none)
ReadCurrentErr(workspaceId, fault) ==
    IF workspaceId \notin WorkspaceIds THEN "invalid value for workspace ID"
    ELSE IF fault = "ReadCurrent" THEN "transport error"
    ELSE IF ~tfe[workspaceId].current THEN ErrResourceNotFound
    ELSE ""

\* what client.StateVersions.ReadCurrent answers: an error, or the current
\* state version; a state version is immutable, so the bytes behind its
\* download URL are the ones it has now
ReadCurrent(workspaceId, fault) ==
    [err   |-> ReadCurrentErr(workspaceId, fault),
     state |-> IF ReadCurrentErr(workspaceId, fault) = ""
               THEN tfe[workspaceId].state ELSE <<>>]

\* error of client.StateVersions.Download ("" for none)
DownloadErr(fault) ==
    IF fault = "Download" THEN "transport error"
    ELSE IF fault = "DownloadNotFound" THEN ErrResourceNotFound
    ELSE ""

\* variant: ignoreEmpty is not consulted, a missing version is an error
getStateFileNeverIgnores(rc, workspaceId, ignoreEmpty, fault) ==
    LET rcErr  == rc.err
        rcCall == [api   |-> "StateVersions.ReadCurrent",
                   input |-> [workspaceID |-> workspaceId],
                   err   |-> rcErr]
        dlErr  == DownloadErr(fault)
        dlCall == [api   |-> "StateVersions.Download",
                   input |-> [workspaceID |-> workspaceId],
                   err   |-> dlErr,
                   out   |-> IF dlErr = "" THEN rc.state ELSE <<>>]
    IN  IF rcErr # "" THEN
            [state |-> <<>>,
             diag  |-> <<ErrorDiag("tfe client",
                           "failed to get state version: " \o rcErr)>>,
             ignored |-> FALSE, calls |-> <<rcCall>>]
        ELSE IF dlErr # "" THEN
            [state |-> <<>>,
             diag  |-> <<ErrorDiag("tfe client",
                                   "failed to download state: " \o dlErr)>>,
             ignored |-> FALSE, calls |-> <<rcCall, dlCall>>]
        ELSE [state |-> rc.state, diag |-> <<>>,
              ignored |-> FALSE, calls |-> <<rcCall, dlCall>>]

\* variant: a not-found error of the download is ignored as well
getStateFileIgnoresDownloadNotFound(rc, workspaceId, ignoreEmpty, fault) ==
    LET rcErr  == rc.err
        rcCall == [api   |-> "StateVersions.ReadCurrent",
                   input |-> [workspaceID |-> workspaceId],
                   err   |-> rcErr]
        dlErr  == DownloadErr(fault)
        dlCall == [api   |-> "StateVersions.Download",
                   input |-> [workspaceID |-> workspaceId],
                   err   |-> dlErr,
                   out   |-> IF dlErr = "" THEN rc.state ELSE <<>>]
    IN  IF rcErr # "" THEN
            IF ignoreEmpty /\ rcErr = ErrResourceNotFound
            THEN [state |-> <<>>, diag |-> <<>>, ignored |-> TRUE,
                  calls |-> <<rcCall>>]
            ELSE [state |-> <<>>,
                  diag  |-> <<ErrorDiag("tfe client",
                                "failed to get state version: " \o rcErr)>>,
                  ignored |-> FALSE, calls |-> <<rcCall>>]
        ELSE IF dlErr # "" THEN
            IF ignoreEmpty /\ dlErr = ErrResourceNotFound
            THEN [state |-> <<>>, diag |-> <<>>, ignored |-> TRUE,
                  calls |-> <<rcCall, dlCall>>]
            ELSE
            [state |-> <<>>,
             diag  |-> <<ErrorDiag("tfe client",
                                   "failed to download state: " \o dlErr)>>,
             ignored |-> FALSE, calls |-> <<rcCall, dlCall>>]
        ELSE [state |-> rc.state, diag |-> <<>>,
              ignored |-> FALSE, calls |-> <<rcCall, dlCall>>]

getStateFile(rc, workspaceId, ignoreEmpty, fault) ==
    LET rcErr  == rc.err
        rcCall == [api   |-> "StateVersions.ReadCurrent",
                   input |-> [workspaceID |-> workspaceId],
                   err   |-> rcErr]
        dlErr  == DownloadErr(fault)
        dlCall == [api   |-> "StateVersions.Download",
                   input |-> [workspaceID |-> workspaceId],
                   err   |-> dlErr,
                   out   |-> IF dlErr = "" THEN rc.state ELSE <<>>]
    IN  IF rcErr # "" THEN
            IF ignoreEmpty /\ rcErr = ErrResourceNotFound
            THEN [state |-> <<>>, diag |-> <<>>, ignored |-> TRUE,
                  calls |-> <<rcCall>>]
            ELSE [state |-> <<>>,
                  diag  |-> <<ErrorDiag("tfe client",
                                "failed to get state version: " \o rcErr)>>,
                  ignored |-> FALSE, calls |-> <<rcCall>>]
        ELSE IF dlErr # "" THEN
            [state |-> <<>>,
             diag  |-> <<ErrorDiag("tfe client",
                                   "failed to download state: " \o dlErr)>>,
             ignored |-> FALSE, calls |-> <<rcCall, dlCall>>]
        ELSE [state |-> rc.state, diag |-> <<>>,
              ignored |-> FALSE, calls |-> <<rcCall, dlCall>>]

\* error of client.GetObject, or of reading the body ("" for none)
GetObjectErr(bucket, key, fault) ==
    IF <<bucket, key>> \notin ObjectLocs THEN "invalid parameters"
    ELSE IF fault = "GetObject" THEN "transport error"
    ELSE IF ~s3[<<bucket, key>>].exists THEN "NoSuchKey"
    ELSE ""

\* what client.GetObject answers: an error, or the object as it is now,
\* whose body the caller then reads
GetObject(bucket, key, fault) ==
    [err  |-> GetObjectErr(bucket, key, fault),
     body |-> IF GetObjectErr(bucket, key, fault) = ""
              THEN s3[<<bucket, key>>].body ELSE <<>>]

\* variant: the bytes read are assigned to a shadowed variable and lost
getS3ObjectContentsShadowed(got, bucket, key, fault) ==
    LET err  == got.err
        call == [api   |-> "S3.GetObject",
                 input |-> [Bucket |-> bucket, Key |-> key],
                 err   |-> err,
                 out   |-> got.body]
    IN  IF err # "" THEN
            [contents |-> <<>>,
             diag  |-> <<ErrorDiag("s3 client", "failed to get object: " \o err)>>,
             calls |-> <<call>>]
        ELSE IF fault = "ReadAll" THEN
            [contents |-> <<>>,
             diag  |-> <<ErrorDiag("s3 client",
                                   "failed to read body: transport error")>>,
             calls |-> <<call>>]
        ELSE [contents |-> <<>>, diag |-> <<>>, calls |-> <<call>>]

getS3ObjectContents(got, bucket, key, fault) ==
    LET err  == got.err
        call == [api   |-> "S3.GetObject",
                 input |-> [Bucket |-> bucket, Key |-> key],
                 err   |-> err,
                 out   |-> got.body]
    IN  IF err # "" THEN
            [contents |-> <<>>,
             diag  |-> <<ErrorDiag("s3 client", "failed to get object: " \o err)>>,
             calls |-> <<call>>]
        ELSE IF fault = "ReadAll" THEN
            [contents |-> <<>>,
             diag  |-> <<ErrorDiag("s3 client",
                                   "failed to read body: transport error")>>,
             calls |-> <<call>>]
        ELSE [contents |-> got.body, diag |-> <<>>,
              calls |-> <<call>>]

putObjectOptions(bucket, key, kmsKeyId, contents, tags) ==
    [Bucket |-> bucket, Key |-> key, KmsKeyId |-> kmsKeyId,
     Contents |-> contents, Tags |-> tags]

\* variant: the contents are not checked
validateNamesOnly(o) ==
    (IF o.Bucket = "" THEN <<ErrorDiag("putObjectOptions", "empty bucket")>> ELSE <<>>)
    \o (IF o.Key = "" THEN <<ErrorDiag("putObjectOptions", "empty key")>> ELSE <<>>)

\* putObjectOptions.validate: every failed check adds its own error
validate(o) ==
    (IF o.Bucket = "" THEN <<ErrorDiag("putObjectOptions", "empty bucket")>> ELSE <<>>)
    \o (IF o.Key = "" THEN <<ErrorDiag("putObjectOptions", "empty key")>> ELSE <<>>)
    \o (IF Len(o.Contents) = 0
        THEN <<ErrorDiag("putObjectOptions", "empty contents")>> ELSE <<>>)

\* the s3.PutObjectInput that putS3ObjectContents builds
\* variant: the body reader has been drained before the request is sent
PutObjectInputDrainedBody(o, order) ==
    [Bucket               |-> o.Bucket,
     Key                  |-> o.Key,
     Body                 |-> <<>>,
     ContentLength        |-> Len(o.Contents),
     ContentType          |-> "application/json",
     ChecksumAlgorithm    |-> "SHA256",
     ServerSideEncryption |-> IF o.KmsKeyId # "" THEN "aws:kms" ELSE "",
     SSEKMSKeyId          |-> o.KmsKeyId,
     HasTagging           |-> Cardinality(DOMAIN o.Tags) > 0,
     Tagging              |-> IF Cardinality(DOMAIN o.Tags) > 0
                              THEN newTags(o.Tags, order) ELSE <<>>]

PutObjectInput(o, order) ==
    [Bucket               |-> o.Bucket,
     Key                  |-> o.Key,
     Body                 |-> o.Contents,
     ContentLength        |-> Len(o.Contents),
     ContentType          |-> "application/json",
     ChecksumAlgorithm    |-> "SHA256",
     ServerSideEncryption |-> IF o.KmsKeyId # "" THEN "aws:kms" ELSE "",
     SSEKMSKeyId          |-> o.KmsKeyId,
     HasTagging           |-> Cardinality(DOMAIN o.Tags) > 0,
     Tagging              |-> IF Cardinality(DOMAIN o.Tags) > 0
                              THEN newTags(o.Tags, order) ELSE <<>>]

\* error of client.PutObject ("" for none)
PutObjectErr(bucket, key, fault) ==
    IF <<bucket, key>> \notin ObjectLocs THEN "invalid parameters"
    ELSE IF fault = "PutObject" THEN "transport error"
    ELSE ""

putS3ObjectContents(o, order, fault) ==
    LET vdiag == validate(o)
        err   == PutObjectErr(o.Bucket, o.Key, fault)
        call  == [api |-> "S3.PutObject", input |-> PutObjectInput(o, order),
                  err |-> err]
    IN  IF HasError(vdiag) THEN [diag |-> vdiag, calls |-> <<>>]
        ELSE IF err # "" THEN
            [diag  |-> <<ErrorDiag("s3 client", "failed s3 put object: " \o err)>>,
             calls |-> <<call>>]
        ELSE [diag |-> <<>>, calls |-> <<call>>]

\* error of client.DeleteObject ("" for none)
DeleteObjectErr(bucket, key, fault) ==
    IF <<bucket, key>> \notin ObjectLocs THEN "invalid parameters"
    ELSE IF fault = "DeleteObject" THEN "transport error"
    ELSE ""

deleteS3Object(bucket, key, fault) ==
    LET err  == DeleteObjectErr(bucket, key, fault)
        call == [api   |-> "S3.DeleteObject",
                 input |-> [Bucket |-> bucket, Key |-> key],
                 err   |-> err]
    IN  IF err # "" THEN
            [diag  |-> <<ErrorDiag("s3 client",
                                   "failed to delete s3 object: " \o err)>>,
             calls |-> <<call>>]
        ELSE [diag |-> <<>>, calls |-> <<call>>]

\* the bucket service after the remote calls that succeeded
RECURSIVE ApplyCalls(_, _)
ApplyCalls(store, cs) ==
    IF cs = <<>> THEN store
    ELSE LET c    == Head(cs)
             loc  == <<c.input.Bucket, c.input.Key>>
             next == IF c.err # "" THEN store
                     ELSE IF c.api = "S3.PutObject"
                          THEN [store EXCEPT ![loc] = Object(c.input.Body)]
                     ELSE IF c.api = "S3.DeleteObject"
                          THEN [store EXCEPT ![loc] = NoObject]
                     ELSE store
         IN  ApplyCalls(next, Tail(cs))

\* ---------------------------------------------------------------------
\* The handlers.  A response holds the diagnostics, the remote calls issued
\* and the record handed to resp.State.Set (<<>> when Set was not called).
\* ---------------------------------------------------------------------
Response(diags, cs, state) == [diags |-> diags, calls |-> cs, state |-> state]

\* variant: the ignored branch leaves the digests as the plan has them
CreateResponseKeepsDigests(r, plan, gs, fault) ==
    LET vd    == validateS3ObjectResource(r)
        data  == [plan EXCEPT !.id = newS3ObjectResourceID(plan),
                              !.ignored = BoolValue(gs.ignored)]
        done  == [data EXCEPT !.state_contents_sha256 = sha256Contents(gs.state),
                              !.bucket_contents_sha256 = sha256Contents(gs.state)]
        o     == putObjectOptions(ValueString(data.bucket), ValueString(data.key),
                                  ValueString(data.kms_key_id), gs.state, <<>>)
        put   == putS3ObjectContents(o, <<>>, fault)
    IN  IF HasError(vd) THEN Response(vd, <<>>, <<>>)
        ELSE IF HasError(gs.diag) THEN Response(gs.diag, gs.calls, <<>>)
        ELSE IF gs.ignored THEN Response(gs.diag, gs.calls, <<data>>)
        ELSE IF HasError(put.diag)
             THEN Response(gs.diag \o put.diag, gs.calls \o put.calls, <<>>)
        ELSE Response(gs.diag \o put.diag, gs.calls \o put.calls, <<done>>)

\* variant: the record is set before the outcome of the put is looked at
CreateResponseSetsBeforePut(r, plan, gs, fault) ==
    LET vd    == validateS3ObjectResource(r)
        data  == [plan EXCEPT !.id = newS3ObjectResourceID(plan),
                              !.ignored = BoolValue(gs.ignored)]
        skip  == [data EXCEPT !.state_contents_sha256 = StringNull,
                              !.bucket_contents_sha256 = StringNull]
        done  == [data EXCEPT !.state_contents_sha256 = sha256Contents(gs.state),
                              !.bucket_contents_sha256 = sha256Contents(gs.state)]
        o     == putObjectOptions(ValueString(data.bucket), ValueString(data.key),
                                  ValueString(data.kms_key_id), gs.state, <<>>)
        put   == putS3ObjectContents(o, <<>>, fault)
    IN  IF HasError(vd) THEN Response(vd, <<>>, <<>>)
        ELSE IF HasError(gs.diag) THEN Response(gs.diag, gs.calls, <<>>)
        ELSE IF gs.ignored THEN Response(gs.diag, gs.calls, <<skip>>)
        ELSE IF HasError(put.diag)
             THEN Response(gs.diag \o put.diag, gs.calls \o put.calls, <<done>>)
        ELSE Response(gs.diag \o put.diag, gs.calls \o put.calls, <<done>>)

\* S3ObjectResource.Create
CreateResponse(r, plan, gs, fault) ==
    LET vd    == validateS3ObjectResource(r)
        data  == [plan EXCEPT !.id = newS3ObjectResourceID(plan),
                              !.ignored = BoolValue(gs.ignored)]
        skip  == [data EXCEPT !.state_contents_sha256 = StringNull,
                              !.bucket_contents_sha256 = StringNull]
        done  == [data EXCEPT !.state_contents_sha256 = sha256Contents(gs.state),
                              !.bucket_contents_sha256 = sha256Contents(gs.state)]
        o     == putObjectOptions(ValueString(data.bucket), ValueString(data.key),
                                  ValueString(data.kms_key_id), gs.state, <<>>)
        put   == putS3ObjectContents(o, <<>>, fault)
    IN  IF HasError(vd) THEN Response(vd, <<>>, <<>>)
        ELSE IF HasError(gs.diag) THEN Response(gs.diag, gs.calls, <<>>)
        ELSE IF gs.ignored THEN Response(gs.diag, gs.calls, <<skip>>)
        ELSE IF HasError(put.diag)
             THEN Response(gs.diag \o put.diag, gs.calls \o put.calls, <<>>)
        ELSE Response(gs.diag \o put.diag, gs.calls \o put.calls, <<done>>)

\* variant: Read goes on to the object after a failed fetch
ReadResponseIgnoresFetchError(r, state, gs, got, fault) ==
    LET vd    == validateS3ObjectResource(r)
        data  == [state EXCEPT !.id = newS3ObjectResourceID(state),
                               !.ignored = BoolValue(gs.ignored)]
        skip  == [data EXCEPT !.state_contents_sha256 = StringNull,
                              !.bucket_contents_sha256 = StringNull]
        get   == getS3ObjectContents(got, ValueString(data.bucket),
                                     ValueString(data.key), fault)
        done  == [data EXCEPT !.state_contents_sha256 = sha256Contents(gs.state),
                              !.bucket_contents_sha256 = sha256Contents(get.contents)]
    IN  IF HasError(vd) THEN Response(vd, <<>>, <<>>)
        ELSE IF gs.ignored THEN Response(gs.diag, gs.calls, <<skip>>)
        ELSE IF HasError(gs.diag \o get.diag)
             THEN Response(gs.diag \o get.diag, gs.calls \o get.calls, <<>>)
        ELSE Response(gs.diag \o get.diag, gs.calls \o get.calls, <<done>>)

\* variant: Read leaves ignored as the prior record has it
ReadResponseKeepsIgnored(r, state, gs, got, fault) ==
    LET vd    == validateS3ObjectResource(r)
        data  == [state EXCEPT !.id = newS3ObjectResourceID(state)]
        skip  == [data EXCEPT !.state_contents_sha256 = StringNull,
                              !.bucket_contents_sha256 = StringNull]
        get   == getS3ObjectContents(got, ValueString(data.bucket),
                                     ValueString(data.key), fault)
        done  == [data EXCEPT !.state_contents_sha256 = sha256Contents(gs.state),
                              !.bucket_contents_sha256 = sha256Contents(get.contents)]
    IN  IF HasError(vd) THEN Response(vd, <<>>, <<>>)
        ELSE IF HasError(gs.diag) THEN Response(gs.diag, gs.calls, <<>>)
        ELSE IF gs.ignored THEN Response(gs.diag, gs.calls, <<skip>>)
        ELSE IF HasError(get.diag)
             THEN Response(gs.diag \o get.diag, gs.calls \o get.calls, <<>>)
        ELSE Response(gs.diag \o get.diag, gs.calls \o get.calls, <<done>>)

\* S3ObjectResource.Read
ReadResponse(r, state, gs, got, fault) ==
    LET vd    == validateS3ObjectResource(r)
        data  == [state EXCEPT !.id = newS3ObjectResourceID(state),
                               !.ignored = BoolValue(gs.ignored)]
        skip  == [data EXCEPT !.state_contents_sha256 = StringNull,
                              !.bucket_contents_sha256 = StringNull]
        get   == getS3ObjectContents(got, ValueString(data.bucket),
                                     ValueString(data.key), fault)
        done  == [data EXCEPT !.state_contents_sha256 = sha256Contents(gs.state),
                              !.bucket_contents_sha256 = sha256Contents(get.contents)]
    IN  IF HasError(vd) THEN Response(vd, <<>>, <<>>)
        ELSE IF HasError(gs.diag) THEN Response(gs.diag, gs.calls, <<>>)
        ELSE IF gs.ignored THEN Response(gs.diag, gs.calls, <<skip>>)
        ELSE IF HasError(get.diag)
             THEN Response(gs.diag \o get.diag, gs.calls \o get.calls, <<>>)
        ELSE Response(gs.diag \o get.diag, gs.calls \o get.calls, <<done>>)

\* variant: the bucket digest is not set after the write
UpdateResponseOneDigest(r, plan, gs, order, fault) ==
    LET vd    == validateS3ObjectResource(r)
        tags  == ElementsAs(plan.tags)
        data  == [plan EXCEPT !.ignored = BoolValue(gs.ignored)]
        skip  == [data EXCEPT !.state_contents_sha256 = StringNull,
                              !.bucket_contents_sha256 = StringNull]
        done  == [data EXCEPT !.state_contents_sha256 = sha256Contents(gs.state)]
        o     == putObjectOptions(ValueString(plan.bucket), ValueString(plan.key),
                                  ValueString(plan.kms_key_id), gs.state, tags)
        put   == putS3ObjectContents(o, order, fault)
    IN  IF HasError(vd) THEN Response(vd, <<>>, <<>>)
        ELSE IF HasError(gs.diag) THEN Response(gs.diag, gs.calls, <<>>)
        ELSE IF gs.ignored THEN Response(gs.diag, gs.calls, <<skip>>)
        ELSE IF HasError(put.diag)
             THEN Response(gs.diag \o put.diag, gs.calls \o put.calls, <<>>)
        ELSE Response(gs.diag \o put.diag, gs.calls \o put.calls, <<done>>)

\* variant: the object is deleted before it is written again
UpdateResponseDeletesFirst(r, plan, gs, order, fault) ==
    LET vd    == validateS3ObjectResource(r)
        tags  == ElementsAs(plan.tags)
        data  == [plan EXCEPT !.ignored = BoolValue(gs.ignored)]
        skip  == [data EXCEPT !.state_contents_sha256 = StringNull,
                              !.bucket_contents_sha256 = StringNull]
        done  == [data EXCEPT !.state_contents_sha256 = sha256Contents(gs.state),
                              !.bucket_contents_sha256 = sha256Contents(gs.state)]
        o     == putObjectOptions(ValueString(plan.bucket), ValueString(plan.key),
                                  ValueString(plan.kms_key_id), gs.state, tags)
        put   == putS3ObjectContents(o, order, fault)
        del   == deleteS3Object(ValueString(plan.bucket), ValueString(plan.key), "none")
    IN  IF HasError(vd) THEN Response(vd, <<>>, <<>>)
        ELSE IF HasError(gs.diag) THEN Response(gs.diag, gs.calls, <<>>)
        ELSE IF gs.ignored THEN Response(gs.diag, gs.calls, <<skip>>)
        ELSE IF HasError(put.diag)
             THEN Response(gs.diag \o put.diag, gs.calls \o put.calls, <<>>)
        ELSE Response(gs.diag \o put.diag, gs.calls \o del.calls \o put.calls, <<done>>)

\* S3ObjectResource.Update
UpdateResponse(r, plan, gs, order, fault) ==
    LET vd    == validateS3ObjectResource(r)
        tags  == ElementsAs(plan.tags)
        data  == [plan EXCEPT !.ignored = BoolValue(gs.ignored)]
        skip  == [data EXCEPT !.state_contents_sha256 = StringNull,
                              !.bucket_contents_sha256 = StringNull]
        done  == [data EXCEPT !.state_contents_sha256 = sha256Contents(gs.state),
                              !.bucket_contents_sha256 = sha256Contents(gs.state)]
        o     == putObjectOptions(ValueString(plan.bucket), ValueString(plan.key),
                                  ValueString(plan.kms_key_id), gs.state, tags)
        put   == putS3ObjectContents(o, order, fault)
    IN  IF HasError(vd) THEN Response(vd, <<>>, <<>>)
        ELSE IF HasError(gs.diag) THEN Response(gs.diag, gs.calls, <<>>)
        ELSE IF gs.ignored THEN Response(gs.diag, gs.calls, <<skip>>)
        ELSE IF HasError(put.diag)
             THEN Response(gs.diag \o put.diag, gs.calls \o put.calls, <<>>)
        ELSE Response(gs.diag \o put.diag, gs.calls \o put.calls, <<done>>)

\* variant: only the record's own soft_delete is consulted
DeleteResponseRecordFlagOnly(r, state, fault) ==
    LET vd  == validateS3ObjectResource(r)
        del == deleteS3Object(ValueString(state.bucket), ValueString(state.key), fault)
    IN  IF HasError(vd) THEN Response(vd, <<>>, <<>>)
        ELSE IF ValueBool(state.soft_delete)
             THEN Response(<<WarningDiag("using soft delete",
                                "bucket: " \o ValueString(state.bucket)
                                    \o ", key: " \o ValueString(state.key))>>,
                           <<>>, <<>>)
        ELSE Response(del.diag, del.calls, <<>>)

\* S3ObjectResource.Delete
DeleteResponse(r, state, fault) ==
    LET vd  == validateS3ObjectResource(r)
        del == deleteS3Object(ValueString(state.bucket), ValueString(state.key), fault)
    IN  IF HasError(vd) THEN Response(vd, <<>>, <<>>)
        ELSE IF r.softDelete \/ ValueBool(state.soft_delete)
             THEN Response(<<WarningDiag("using soft delete",
                                "bucket: " \o ValueString(state.bucket)
                                    \o ", key: " \o ValueString(state.key))>>,
                           <<>>, <<>>)
        ELSE Response(del.diag, del.calls, <<>>)

\* variant: the import looks the identifier up at the state source first
ImportStateResponseLooksUp(r, id) ==
    LET vd == validateS3ObjectResource(r)
        rc == [api   |-> "StateVersions.ReadCurrent",
               input |-> [workspaceID |-> id],
               err   |-> ReadCurrentErr(id, "none")]
    IN  IF HasError(vd) THEN Response(vd, <<>>, <<>>)
        ELSE Response(<<>>, <<rc>>, <<ImportedModel(id)>>)

\* S3ObjectResource.ImportState
ImportStateResponse(r, id) ==
    LET vd == validateS3ObjectResource(r)
    IN  IF HasError(vd) THEN Response(vd, <<>>, <<>>)
        ELSE Response(<<>>, <<>>, <<ImportedModel(id)>>)

\* ---------------------------------------------------------------------
\* State machine
\* ---------------------------------------------------------------------
\* the handler call on record: which handler, the resource it ran on, the
\* record it decoded (<<>> if it did not get that far), its diagnostics and
\* whether it called resp.State.Set
Call(op, r, req, resp) ==
    [op    |-> op,
     r     |-> r,
     req   |-> IF HasError(validateS3ObjectResource(r)) THEN <<>> ELSE <<req>>,
     diags |-> resp.diags,
     set   |-> resp.state # <<>>]

NoCall ==
    [op |-> "none", r |-> NewS3ObjectResource, req |-> <<>>, diags |-> <<>>,
     set |-> FALSE]

\* a handler that waits for an answer of a remote service: the handler,
\* the call it is about to issue ("Download", "Bucket": the put or the get,
\* "ReadAll"), the resource it runs on, the record it decoded, and the
\* answers it has got so far (<<>> for one it has not asked for yet): the
\* version lookup's, getStateFile's result, the answer of GetObject
InFlight(op, at, r, req, rc, gs, got) ==
    [op |-> op, at |-> at, r |-> r, req |-> req, rc |-> rc, gs |-> gs, got |-> got]

\* the handler returns without asking for the download: the resource is
\* not configured, or the version lookup answered an error (which
\* getStateFile reports or, for a missing version, may ignore)
ReturnsAfterLookup(r, rc) ==
    \/ HasError(validateS3ObjectResource(r))
    \/ rc.err # ""

\* the handler returns without calling the bucket: the fetch failed, or
\* there is no state file to copy
ReturnsAfterFetch(gs) == HasError(gs.diag) \/ gs.ignored

LookupFaults == {"none", "ReadCurrent"}

DownloadFaults == {"none", "Download", "DownloadNotFound"}

PutFaults == {"none", "PutObject"}

GetObjectFaults == {"none", "GetObject"}

ReadAllFaults == {"none", "ReadAll"}

DeleteFaults == {"none", "DeleteObject"}

Init ==
    /\ tfe = [w \in WorkspaceIds |-> NoVersion]
    /\ s3 = [loc \in ObjectLocs |-> NoObject]
    /\ tfstate = <<>>
    /\ imported = <<>>
    /\ pending = <<>>
    /\ last = NoCall
    /\ calls = <<>>

\* Terraform applies a plan that creates the resource: Create up to the
\* answer of the version lookup
Create(pd, cfg, fault) ==
    /\ last = NoCall
    /\ pending = <<>>
    /\ tfstate = <<>>
    /\ imported = <<>>
    /\ LET r    == Configure(pd)
           req  == PlanModel(cfg, StringUnknown)
       IN  \E rc \in {ReadCurrent(ValueString(req.workspace_id), fault)} :
               IF ReturnsAfterLookup(r, rc)
               THEN \E resp \in {CreateResponse(r, req,
                                 getStateFile(rc, ValueString(req.workspace_id),
                                     ValueBool(req.ignore_empty), "none"), "none")} :
                        /\ last' = Call("Create", r, req, resp)
                        /\ calls' = resp.calls
                        /\ tfstate' = IF resp.state # <<>> THEN resp.state
                                      ELSE tfstate
                        /\ pending' = <<>>
               ELSE /\ pending' = <<InFlight("Create", "Download", r, req, rc, <<>>, <<>>)>>
                    /\ UNCHANGED <<last, calls, tfstate>>
    /\ UNCHANGED <<tfe, s3, imported>>

\* Create from the download to the return of getStateFile
CreateDownload(fault) ==
    /\ pending # <<>>
    /\ pending[1].op = "Create"
    /\ pending[1].at = "Download"
    /\ \E gs \in {getStateFile(pending[1].rc, ValueString(pending[1].req.workspace_id),
                                ValueBool(pending[1].req.ignore_empty), fault)} :
           IF ReturnsAfterFetch(gs)
           THEN \E resp \in {CreateResponse(pending[1].r, pending[1].req, gs, "none")} :
                    /\ last' = Call("Create", pending[1].r, pending[1].req, resp)
                    /\ calls' = resp.calls
                    /\ tfstate' = IF resp.state # <<>> THEN resp.state
                                  ELSE tfstate
                    /\ pending' = <<>>
           ELSE /\ pending' = <<InFlight("Create", "Bucket", pending[1].r,
                                         pending[1].req, pending[1].rc, gs, <<>>)>>
                /\ UNCHANGED <<last, calls, tfstate>>
    /\ UNCHANGED <<tfe, s3, imported>>

\* Create from putS3ObjectContents to its return
CreatePut(fault) ==
    /\ pending # <<>>
    /\ pending[1].op = "Create"
    /\ pending[1].at = "Bucket"
    /\ \E resp \in {CreateResponse(pending[1].r, pending[1].req,
                                   pending[1].gs, fault)} :
           /\ last' = Call("Create", pending[1].r, pending[1].req, resp)
           /\ calls' = resp.calls
           /\ s3' = ApplyCalls(s3, resp.calls)
           /\ tfstate' = IF resp.state # <<>> THEN resp.state ELSE tfstate
    /\ pending' = <<>>
    /\ UNCHANGED <<tfe, imported>>

\* Terraform refreshes the resource: Read up to the answer of the version
\* lookup
Read(pd, fault) ==
    /\ last = NoCall
    /\ pending = <<>>
    /\ tfstate # <<>>
    /\ LET r    == Configure(pd)
           req  == tfstate[1]
       IN  \E rc \in {ReadCurrent(ValueString(req.workspace_id), fault)} :
               IF ReturnsAfterLookup(r, rc)
               THEN \E resp \in {ReadResponse(r, req,
                               getStateFile(rc, ValueString(req.workspace_id),
                                   ValueBool(req.ignore_empty), "none"),
                               GetObject(ValueString(req.bucket),
                                         ValueString(req.key), "none"),
                               "none")} :
                        /\ last' = Call("Read", r, req, resp)
                        /\ calls' = resp.calls
                        /\ tfstate' = IF resp.state # <<>> THEN resp.state
                                      ELSE tfstate
                        /\ pending' = <<>>
               ELSE /\ pending' = <<InFlight("Read", "Download", r, req, rc, <<>>, <<>>)>>
                    /\ UNCHANGED <<last, calls, tfstate>>
    /\ UNCHANGED <<tfe, s3, imported>>

\* terraform import reads the resource it has just imported and persists
\* what Read returns; if Read fails the import is dropped
ReadImported(pd, fault) ==
    /\ last = NoCall
    /\ pending = <<>>
    /\ imported # <<>>
    /\ LET r    == Configure(pd)
           req  == imported[1]
       IN  \E rc \in {ReadCurrent(ValueString(req.workspace_id), fault)} :
               IF ReturnsAfterLookup(r, rc)
               THEN \E resp \in {ReadResponse(r, req,
                               getStateFile(rc, ValueString(req.workspace_id),
                                   ValueBool(req.ignore_empty), "none"),
                               GetObject(ValueString(req.bucket),
                                         ValueString(req.key), "none"),
                               "none")} :
                        /\ last' = Call("Read", r, req, resp)
                        /\ calls' = resp.calls
                        /\ tfstate' = IF resp.state # <<>> THEN resp.state
                                      ELSE tfstate
                        /\ pending' = <<>>
               ELSE /\ pending' = <<InFlight("Read", "Download", r, req, rc, <<>>, <<>>)>>
                    /\ UNCHANGED <<last, calls, tfstate>>
    /\ imported' = <<>>
    /\ UNCHANGED <<tfe, s3>>

\* Read from the download to the return of getStateFile
ReadDownload(fault) ==
    /\ pending # <<>>
    /\ pending[1].op = "Read"
    /\ pending[1].at = "Download"
    /\ \E gs \in {getStateFile(pending[1].rc, ValueString(pending[1].req.workspace_id),
                                ValueBool(pending[1].req.ignore_empty), fault)} :
           IF ReturnsAfterFetch(gs)
           THEN \E resp \in {ReadResponse(pending[1].r, pending[1].req, gs,
                                     GetObject(ValueString(pending[1].req.bucket),
                                               ValueString(pending[1].req.key),
                                               "none"),
                                     "none")} :
                    /\ last' = Call("Read", pending[1].r, pending[1].req, resp)
                    /\ calls' = resp.calls
                    /\ tfstate' = IF resp.state # <<>> THEN resp.state
                                  ELSE tfstate
                    /\ pending' = <<>>
           ELSE /\ pending' = <<InFlight("Read", "Bucket", pending[1].r,
                                         pending[1].req, pending[1].rc, gs, <<>>)>>
                /\ UNCHANGED <<last, calls, tfstate>>
    /\ UNCHANGED <<tfe, s3, imported>>

\* Read from getS3ObjectContents to the answer of GetObject
ReadGet(fault) ==
    /\ pending # <<>>
    /\ pending[1].op = "Read"
    /\ pending[1].at = "Bucket"
    /\ \E got \in {GetObject(ValueString(pending[1].req.bucket),
                             ValueString(pending[1].req.key), fault)} :
           IF got.err # ""
           THEN \E resp \in {ReadResponse(pending[1].r, pending[1].req,
                                          pending[1].gs, got, "none")} :
                    /\ last' = Call("Read", pending[1].r, pending[1].req, resp)
                    /\ calls' = resp.calls
                    /\ tfstate' = IF resp.state # <<>> THEN resp.state
                                  ELSE tfstate
                    /\ pending' = <<>>
           ELSE /\ pending' = <<InFlight("Read", "ReadAll", pending[1].r,
                                         pending[1].req, pending[1].rc,
                                         pending[1].gs, got)>>
                /\ UNCHANGED <<last, calls, tfstate>>
    /\ UNCHANGED <<tfe, s3, imported>>

\* Read from the reading of the object's body to its return
ReadAll(fault) ==
    /\ pending # <<>>
    /\ pending[1].op = "Read"
    /\ pending[1].at = "ReadAll"
    /\ \E resp \in {ReadResponse(pending[1].r, pending[1].req,
                                 pending[1].gs, pending[1].got, fault)} :
           /\ last' = Call("Read", pending[1].r, pending[1].req, resp)
           /\ calls' = resp.calls
           /\ s3' = ApplyCalls(s3, resp.calls)
           /\ tfstate' = IF resp.state # <<>> THEN resp.state ELSE tfstate
    /\ pending' = <<>>
    /\ UNCHANGED <<tfe, imported>>

\* Terraform applies a plan that changes the resource in place: Update up
\* to the answer of the version lookup
Update(pd, cfg, fault) ==
    /\ last = NoCall
    /\ pending = <<>>
    /\ tfstate # <<>>
    /\ LET r    == Configure(pd)
           req  == PlanModel(cfg, UseStateForUnknown(tfstate[1]))
       IN  \E rc \in {ReadCurrent(ValueString(req.workspace_id), fault)} :
               IF ReturnsAfterLookup(r, rc)
               THEN \E resp \in {UpdateResponse(r, req,
                                 getStateFile(rc, ValueString(req.workspace_id),
                                     ValueBool(req.ignore_empty), "none"),
                                 <<>>, "none")} :
                        /\ last' = Call("Update", r, req, resp)
                        /\ calls' = resp.calls
                        /\ tfstate' = IF resp.state # <<>> THEN resp.state
                                      ELSE tfstate
                        /\ pending' = <<>>
               ELSE /\ pending' = <<InFlight("Update", "Download", r, req, rc, <<>>, <<>>)>>
                    /\ UNCHANGED <<last, calls, tfstate>>
    /\ UNCHANGED <<tfe, s3, imported>>

\* Update from the download to the return of getStateFile
UpdateDownload(fault) ==
    /\ pending # <<>>
    /\ pending[1].op = "Update"
    /\ pending[1].at = "Download"
    /\ \E gs \in {getStateFile(pending[1].rc, ValueString(pending[1].req.workspace_id),
                                ValueBool(pending[1].req.ignore_empty), fault)} :
           IF ReturnsAfterFetch(gs)
           THEN \E resp \in {UpdateResponse(pending[1].r, pending[1].req, gs,
                                       <<>>, "none")} :
                    /\ last' = Call("Update", pending[1].r, pending[1].req, resp)
                    /\ calls' = resp.calls
                    /\ tfstate' = IF resp.state # <<>> THEN resp.state
                                  ELSE tfstate
                    /\ pending' = <<>>
           ELSE /\ pending' = <<InFlight("Update", "Bucket", pending[1].r,
                                         pending[1].req, pending[1].rc, gs, <<>>)>>
                /\ UNCHANGED <<last, calls, tfstate>>
    /\ UNCHANGED <<tfe, s3, imported>>

\* Update from putS3ObjectContents to its return
UpdatePut(fault) ==
    /\ pending # <<>>
    /\ pending[1].op = "Update"
    /\ pending[1].at = "Bucket"
    /\ \E order \in KeyOrders(DOMAIN ElementsAs(pending[1].req.tags)) :
       \E resp \in {UpdateResponse(pending[1].r, pending[1].req,
                                   pending[1].gs, order, fault)} :
           /\ last' = Call("Update", pending[1].r, pending[1].req, resp)
           /\ calls' = resp.calls
           /\ s3' = ApplyCalls(s3, resp.calls)
           /\ tfstate' = IF resp.state # <<>> THEN resp.state ELSE tfstate
    /\ pending' = <<>>
    /\ UNCHANGED <<tfe, imported>>

\* Terraform destroys the resource; it drops the record unless the
\* handler returned an error
Delete(pd, fault) ==
    /\ last = NoCall
    /\ pending = <<>>
    /\ tfstate # <<>>
    /\ LET r    == Configure(pd)
       IN  \E resp \in {DeleteResponse(r, tfstate[1], fault)} :
               /\ last' = Call("Delete", r, tfstate[1], resp)
               /\ calls' = resp.calls
               /\ s3' = ApplyCalls(s3, resp.calls)
               /\ tfstate' = IF HasError(resp.diags) THEN tfstate ELSE <<>>
    /\ UNCHANGED <<tfe, imported, pending>>

\* terraform import: the record ImportState returns is not persisted yet
ImportState(pd, id) ==
    /\ last = NoCall
    /\ pending = <<>>
    /\ tfstate = <<>>
    /\ imported = <<>>
    /\ LET r    == Configure(pd)
       IN  \E resp \in {ImportStateResponse(r, id)} :
               /\ last' = Call("ImportState", r, ImportedModel(id), resp)
               /\ calls' = resp.calls
               /\ s3' = ApplyCalls(s3, resp.calls)
               /\ imported' = resp.state
    /\ UNCHANGED <<tfe, tfstate, pending>>

\* The two services belong to other parties and the handlers hold no lock
\* on them: they change whenever no response is waiting to be taken, also
\* while a handler waits for an answer.

\* a run in the workspace produces a new current state version
NewStateVersion(w, c) ==
    /\ last = NoCall
    /\ tfe[w] # Version(c)
    /\ tfe' = [tfe EXCEPT ![w] = Version(c)]
    /\ UNCHANGED <<s3, tfstate, imported, pending, last, calls>>

\* the workspace is destroyed: the service no longer finds it
DestroyWorkspace(w) ==
    /\ last = NoCall
    /\ tfe[w] # NoVersion
    /\ tfe' = [tfe EXCEPT ![w] = NoVersion]
    /\ UNCHANGED <<s3, tfstate, imported, pending, last, calls>>

\* somebody else writes the object
ExternalPut(loc, c) ==
    /\ last = NoCall
    /\ s3[loc] # Object(c)
    /\ s3' = [s3 EXCEPT ![loc] = Object(c)]
    /\ UNCHANGED <<tfe, tfstate, imported, pending, last, calls>>

\* Terraform has taken the response; the next call can come
Done ==
    /\ last # NoCall
    /\ last' = NoCall
    /\ calls' = <<>>
    /\ UNCHANGED <<tfe, s3, tfstate, imported, pending>>

Next ==
    \/ \E pd \in ProviderDatas, cfg \in Configs, fault \in LookupFaults :
            Create(pd, cfg, fault)
    \/ \E fault \in DownloadFaults : CreateDownload(fault)
    \/ \E fault \in PutFaults : CreatePut(fault)
    \/ \E pd \in ProviderDatas, fault \in LookupFaults : Read(pd, fault)
    \/ \E pd \in ProviderDatas, fault \in LookupFaults : ReadImported(pd, fault)
    \/ \E fault \in DownloadFaults : ReadDownload(fault)
    \/ \E fault \in GetObjectFaults : ReadGet(fault)
    \/ \E fault \in ReadAllFaults : ReadAll(fault)
    \/ \E pd \in ProviderDatas, cfg \in Configs, fault \in LookupFaults :
            Update(pd, cfg, fault)
    \/ \E fault \in DownloadFaults : UpdateDownload(fault)
    \/ \E fault \in PutFaults : UpdatePut(fault)
    \/ \E pd \in ProviderDatas, fault \in DeleteFaults : Delete(pd, fault)
    \/ \E pd \in ProviderDatas, id \in ImportIds : ImportState(pd, id)
    \/ \E w \in WorkspaceIds : \E c \in StateFiles(w) : NewStateVersion(w, c)
    \/ \E w \in WorkspaceIds : DestroyWorkspace(w)
    \/ \E loc \in ObjectLocs, c \in ForeignContents : ExternalPut(loc, c)
    \/ Done

Spec == Init /\ [][Next]_vars

\* ---------------------------------------------------------------------
\* putS3ObjectContents on its own, for every tag mapping and every order
\* in which the range over the map can visit it
\* ---------------------------------------------------------------------
\* every mapping over the tag pairs, the empty one left out
AllTagMaps ==
    {[k \in {TagPairs[i][1] : i \in S} |->
          (CHOOSE p \in {TagPairs[i] : i \in S} : p[1] = k)[2]] :
        S \in (SUBSET (1..Len(TagPairs))) \ {{}}}

\* a put with the given options; the options are kept in last.req
PutTagged(bucket, key, contents, tags, order) ==
    /\ UNCHANGED <<tfe, tfstate, imported, pending>>
    /\ \E put \in {putS3ObjectContents(
                       putObjectOptions(bucket, key, "", contents, tags),
                       order, "none")} :
           /\ last' = [NoCall EXCEPT
                           !.op = "putS3ObjectContents",
                           !.req = <<putObjectOptions(bucket, key, "", contents, tags)>>,
                           !.diags = put.diag]
           /\ calls' = put.calls
           /\ s3' = ApplyCalls(s3, put.calls)

TagsNext ==
    \E loc \in ObjectLocs, c \in Contents \ {<<>>}, tags \in AllTagMaps :
        \E order \in KeyOrders(DOMAIN tags) :
            PutTagged(loc[1], loc[2], c, tags, order)

TagsSpec == Init /\ [][TagsNext]_vars

\* ---------------------------------------------------------------------
\* Vocabulary of the properties
\* ---------------------------------------------------------------------
Handlers == {"Create", "Read", "Update", "Delete", "ImportState"}

\* the record the handler decoded from its request
Req == last.req[1]

\* the handler got past validateS3ObjectResource
Validated == last.req # <<>>

Indexes(api) == {i \in 1..Len(calls) : calls[i].api = api}

StoreApis == {"S3.PutObject", "S3.GetObject", "S3.DeleteObject"}

StoreCalls == {i \in 1..Len(calls) : calls[i].api \in StoreApis}

\* the version lookup answered "resource not found"
FoundNoCurrentVersion ==
    \E i \in Indexes("StateVersions.ReadCurrent") : calls[i].err = ErrResourceNotFound

\* the version lookup or the download failed
FetchFailed ==
    \/ \E i \in Indexes("StateVersions.ReadCurrent") : calls[i].err # ""
    \/ \E i \in Indexes("StateVersions.Download") : calls[i].err # ""

\* the handler downloaded the workspace's state file
Fetched == \E i \in Indexes("StateVersions.Download") : calls[i].err = ""

\* the state file the handler downloaded
FetchedState ==
    calls[CHOOSE i \in Indexes("StateVersions.Download") : calls[i].err = ""].out

\* the body of the object the handler got
GotBody ==
    calls[CHOOSE i \in Indexes("S3.GetObject") : calls[i].err = ""].out

\* the state file the workspace of the request holds now
RemoteState == tfe[ValueString(Req.workspace_id)].state

ReqLoc == <<ValueString(Req.bucket), ValueString(Req.key)>>

Persisted == tfstate[1]

IsTrue(v) == v = BoolValue(TRUE)

\* FIPS 180-4 test vectors of the three contents, independent of Sum256
KnownDigest(c) ==
    CASE c = <<>> -> "e3b0c44298fc1c149afbf4c8996fb92427ae41e4649b934ca495991b7852b855"
      [] c = <<123, 125>> -> "44136fa355b3678a1146ad16f7e8649e94fb4fc21fe77e8310c060f61caaff8a"
      [] c = <<91, 93>> -> "4f53cda18c2baa0c0354bb5f9a3ecbe5ed12ab4d8e11ba873c2f11161202b945"

\* ---------------------------------------------------------------------
\* C1: when Create, Read or Update finds no current state version and the
\* record has ignore_empty = true, the call returns ignored = true without
\* error and issues no bucket call at all, so every object is as before
\* ---------------------------------------------------------------------
C1_Case ==
    /\ last.op \in {"Create", "Read", "Update"}
    /\ Validated
    /\ FoundNoCurrentVersion
    /\ ValueBool(Req.ignore_empty)

C1_IgnoredWithoutStoreCall ==
    [][C1_Case' =>
        /\ ~HasError(last'.diags)
        /\ last'.set
        /\ IsTrue(tfstate'[1].ignored)
        /\ StoreCalls' = {}
        /\ s3' = s3]_vars

\* an Update is ignored while the object it names exists
C1_Witness ==
    /\ C1_Case
    /\ last.op = "Update"
    /\ ReqLoc \in ObjectLocs
    /\ s3[ReqLoc].exists

\* ---------------------------------------------------------------------
\* C2: a Create or Update that fetches state bytes S and returns its record
\* has both digests equal to sha256hex(S), and issued exactly one put,
\* to the record's bucket and key, with body S
\* ---------------------------------------------------------------------
C2_Case ==
    /\ last.op \in {"Create", "Update"}
    /\ Validated
    /\ Fetched
    /\ ~HasError(last.diags)

C2_WriteThenDigest ==
    C2_Case =>
        /\ last.set
        /\ Persisted.state_contents_sha256 = StringValue(KnownDigest(FetchedState))
        /\ Persisted.bucket_contents_sha256 = StringValue(KnownDigest(FetchedState))
        /\ Cardinality(Indexes("S3.PutObject")) = 1
        /\ \A i \in Indexes("S3.PutObject") :
              /\ calls[i].input.Bucket = ValueString(Persisted.bucket)
              /\ calls[i].input.Key = ValueString(Persisted.key)
              /\ calls[i].input.Body = FetchedState
        /\ s3[ReqLoc].exists /\ s3[ReqLoc].body = FetchedState

\* an Update has replaced the record's digests by those of the state file
\* it downloaded, while the workspace has got a newer one in the meantime
C2_Witness ==
    /\ C2_Case
    /\ last.op = "Update"
    /\ FetchedState = <<91, 93>>
    /\ Persisted.workspace_id = StringValue("ws-1")
    /\ RemoteState = <<123, 125>>

\* ---------------------------------------------------------------------
\* C3: Read takes the state digest from the downloaded state file and the
\* bucket digest from the object it fetched on its own, and reconciles
\* nothing: it issues no put and no delete and leaves every object as it was
\* ---------------------------------------------------------------------
C3_Case ==
    /\ last.op = "Read"
    /\ Validated
    /\ Fetched
    /\ ~HasError(last.diags)

C3_ReadSurfacesDrift ==
    [][/\ (last'.op = "Read" =>
              /\ Indexes("S3.PutObject")' = {}
              /\ Indexes("S3.DeleteObject")' = {}
              /\ s3' = s3)
       /\ (C3_Case' =>
              /\ last'.set
              /\ tfstate'[1].state_contents_sha256 = StringValue(KnownDigest(FetchedState'))
              /\ tfstate'[1].bucket_contents_sha256 = StringValue(KnownDigest(GotBody')))]_vars

\* a Read found the state file and the object different; by the time it
\* returned the workspace had a newer state file than the one it downloaded
C3_Witness ==
    /\ C3_Case
    /\ FetchedState = <<123, 125>>
    /\ GotBody = <<91, 93>>
    /\ s3[ReqLoc].body = <<91, 93>>
    /\ RemoteState = <<>>
    /\ Persisted.state_contents_sha256 # Persisted.bucket_contents_sha256

\* ---------------------------------------------------------------------
\* C4: Delete with the effective soft-delete flag (the record's or the
\* provider's) set issues no delete call and returns exactly one warning and
\* no error; with the flag unset it issues exactly one delete call, for the
\* record's bucket and key, and returns no warning
\* ---------------------------------------------------------------------
C4_Case == last.op = "Delete" /\ Validated

EffectiveSoftDelete == last.r.softDelete \/ ValueBool(Req.soft_delete)

C4_SoftDeleteSkipsStore ==
    C4_Case =>
        IF EffectiveSoftDelete
        THEN /\ calls = <<>>
             /\ WarningCount(last.diags) = 1
             /\ ErrorCount(last.diags) = 0
        ELSE /\ Cardinality(Indexes("S3.DeleteObject")) = 1
             /\ Len(calls) = 1
             /\ calls[1].input = [Bucket |-> ValueString(Req.bucket),
                                  Key |-> ValueString(Req.key)]
             /\ WarningCount(last.diags) = 0

\* a soft delete by the provider default alone has left the object in place
C4_Witness ==
    /\ C4_Case
    /\ last.r.softDelete
    /\ ~ValueBool(Req.soft_delete)
    /\ s3[ReqLoc].exists
    /\ tfstate = <<>>

\* ---------------------------------------------------------------------
\* C5: every record that Create, Read or Update persists has
\* id = "{workspace_id}/{bucket}/{key}" of that same record
\* ---------------------------------------------------------------------
C5_IdMatchesRecord ==
    (last.op \in {"Create", "Read", "Update"} /\ last.set) =>
        Persisted.id = StringValue(ValueString(Persisted.workspace_id) \o "/"
                                     \o ValueString(Persisted.bucket) \o "/"
                                     \o ValueString(Persisted.key))

\* ---------------------------------------------------------------------
\* C6: a persisted record with ignored = true has both digests null
\* ---------------------------------------------------------------------
C6_IgnoredHasNoDigests ==
    (tfstate # <<>> /\ IsTrue(Persisted.ignored)) =>
        /\ Persisted.state_contents_sha256 = StringNull
        /\ Persisted.bucket_contents_sha256 = StringNull

\* a Read has cleared the digests of a record that had them
C6_Witness ==
    /\ last.op = "Read"
    /\ last.set
    /\ IsTrue(Persisted.ignored)
    /\ Req.state_contents_sha256.state = "known"

\* ---------------------------------------------------------------------
\* C7: when the fetch of the remote state fails and the failure is not
\* ignored, Create and Update return an error and issue no put, and Read
\* returns an error and issues no get
\* ---------------------------------------------------------------------
C7_Case ==
    /\ last.op \in {"Create", "Read", "Update"}
    /\ Validated
    /\ FetchFailed
    /\ ~(ValueBool(Req.ignore_empty) /\ FoundNoCurrentVersion)

C7_FetchFailureStopsCall ==
    C7_Case =>
        /\ HasError(last.diags)
        /\ ~last.set
        /\ Indexes("S3.PutObject") = {}
        /\ Indexes("S3.GetObject") = {}

\* an Update found no current version, ignore_empty explicitly false
C7_Witness ==
    /\ C7_Case
    /\ last.op = "Update"
    /\ FoundNoCurrentVersion
    /\ Req.ignore_empty = BoolValue(FALSE)

\* ---------------------------------------------------------------------
\* C8: a handler called without the state client or without the bucket
\* client returns an error and does nothing else: no remote call, no object
\* written or deleted, the persisted record as before
\* ---------------------------------------------------------------------
C8_Case ==
    /\ last.op \in Handlers
    /\ (~last.r.tfeClient \/ ~last.r.s3Client)

C8_AbsentAdapterAborts ==
    [][C8_Case' =>
        /\ HasError(last'.diags)
        /\ calls' = <<>>
        /\ tfe' = tfe
        /\ s3' = s3
        /\ tfstate' = tfstate]_vars

\* a Delete without the state client has kept record and object
C8_Witness ==
    /\ C8_Case
    /\ last.op = "Delete"
    /\ last.r.s3Client
    /\ tfstate # <<>>
    /\ ValueString(Persisted.bucket) = "b1" /\ ValueString(Persisted.key) = "k1"
    /\ s3[<<"b1", "k1">>].exists

\* ---------------------------------------------------------------------
\* C9: a put with empty contents, an empty bucket or an empty key fails
\* before any call to the bucket service; so a Create or Update that
\* fetched a zero-length state file returns an error and writes nothing
\* ---------------------------------------------------------------------
C9_Case ==
    /\ last.op \in {"Create", "Update"}
    /\ Validated
    /\ Fetched
    /\ (FetchedState = <<>> \/ ValueString(Req.bucket) = ""
            \/ ValueString(Req.key) = "")

C9_EmptyPutRejected ==
    [][C9_Case' =>
        /\ HasError(last'.diags)
        /\ ~last'.set
        /\ StoreCalls' = {}
        /\ s3' = s3
        /\ tfstate' = tfstate]_vars

\* an Update fetched a zero-length state file for a well-named object
C9_Witness ==
    /\ C9_Case
    /\ last.op = "Update"
    /\ FetchedState = <<>>
    /\ ReqLoc \in ObjectLocs

\* ---------------------------------------------------------------------
\* C10: the put that Create or Update issues carries the record's
\* kms_key_id and, for a record with tags, the record's tags
\* ---------------------------------------------------------------------
TagStrings(tags) == {newTags(tags, order) : order \in KeyOrders(DOMAIN tags)}

C10_PutCarriesTags ==
    (last.op \in {"Create", "Update"} /\ Validated) =>
        \A i \in Indexes("S3.PutObject") :
            /\ calls[i].input.SSEKMSKeyId = ValueString(Req.kms_key_id)
            /\ (Req.tags.state = "known" =>
                    /\ calls[i].input.HasTagging
                    /\ calls[i].input.Tagging \in TagStrings(Req.tags.elems))

\* ---------------------------------------------------------------------
\* C11: after ImportState(id) and the Read that Terraform runs on the
\* imported record, the record is persisted with the identifier given to
\* the import and with workspace_id, bucket and key populated by that Read
\* ---------------------------------------------------------------------
C11_ImportThenReadPopulates ==
    [][(imported # <<>> /\ last'.op = "Read" /\ Validated') =>
        /\ ~HasError(last'.diags)
        /\ last'.set
        /\ tfstate' # <<>>
        /\ tfstate'[1].id = imported[1].id
        /\ tfstate'[1].workspace_id.state = "known"
        /\ tfstate'[1].bucket.state = "known"
        /\ tfstate'[1].key.state = "known"]_vars

\* ---------------------------------------------------------------------
\* C12: ImportState with both clients configured returns a record whose id
\* is the identifier it was given, unchanged, and calls neither the state
\* source nor the bucket service; every object and the persisted record
\* are as before
\* ---------------------------------------------------------------------
C12_Case == last.op = "ImportState" /\ Validated

C12_ImportIsPassthrough ==
    [][C12_Case' =>
        /\ ~HasError(last'.diags)
        /\ last'.set
        /\ Req'.id \in {StringValue(id) : id \in ImportIds}
        /\ Len(imported') = 1
        /\ imported'[1].id = Req'.id
        /\ \A f \in DOMAIN imported'[1] \ {"id"} : imported'[1][f].state = "null"
        /\ calls' = <<>>
        /\ tfe' = tfe
        /\ s3' = s3
        /\ tfstate' = tfstate]_vars

\* an identifier naming an existing object has been imported
C12_Witness ==
    /\ C12_Case
    /\ imported # <<>>
    /\ imported[1].id = StringValue("ws-1/b1/k1")
    /\ tfe["ws-1"].current
    /\ s3[<<"b1", "k1">>].exists

\* ---------------------------------------------------------------------
\* C13 (as stated): after a Create, Read or Update call, failed or not,
\* the persisted ignored is true iff that call found no current state
\* version and the record it was given has ignore_empty set
\* ---------------------------------------------------------------------
C13_Case == last.op \in {"Create", "Read", "Update"} /\ Validated

C13_IgnoredIffLastCall ==
    (C13_Case /\ tfstate # <<>>) =>
        (IsTrue(Persisted.ignored)
            <=> (FoundNoCurrentVersion /\ ValueBool(Req.ignore_empty)))

\* C13 (amended): a Create, Read or Update call that returns without error
\* persists ignored = true iff it found no current state version and the
\* record has ignore_empty set; a call that returns an error, and every
\* step between calls, leaves the persisted ignored as it was
C13_IgnoredTracksLastSuccess ==
    [][/\ (C13_Case' /\ ~HasError(last'.diags)) =>
              /\ tfstate' # <<>>
              /\ tfstate'[1].ignored
                    = BoolValue(FoundNoCurrentVersion' /\ ValueBool(Req'.ignore_empty))
       /\ (last'.op \in {"Create", "Read", "Update"} /\ HasError(last'.diags)) =>
              tfstate' = tfstate
       /\ (last'.op = "none") => tfstate' = tfstate]_vars

\* an Update that found a state version has failed at the put, and the
\* record still says ignored
C13_Witness ==
    /\ C13_Case
    /\ last.op = "Update"
    /\ Fetched
    /\ HasError(last.diags)
    /\ tfstate # <<>>
    /\ IsTrue(Persisted.ignored)

\* ---------------------------------------------------------------------
\* C14: with ignore_empty = true, only "resource not found" from the
\* version lookup makes the call an ignored success; any other error of
\* the version lookup and any error of the download, a not-found one
\* included, is returned as an error: no record is set, nothing is put and
\* every object is as before
\* ---------------------------------------------------------------------
C14_Case ==
    /\ last.op \in {"Create", "Read", "Update"}
    /\ Validated
    /\ ValueBool(Req.ignore_empty)

C14_OnlyNoCurrentVersionIgnored ==
    [][C14_Case' =>
        IF FoundNoCurrentVersion'
        THEN /\ ~HasError(last'.diags)
             /\ last'.set
             /\ IsTrue(tfstate'[1].ignored)
        ELSE FetchFailed' =>
                /\ HasError(last'.diags)
                /\ ~last'.set
                /\ tfstate' = tfstate
                /\ Indexes("S3.PutObject")' = {}
                /\ s3' = s3]_vars

\* the download answered "resource not found" to an Update of a record
\* with ignore_empty = true: the workspace was destroyed after the version
\* lookup had found its current version
C14_Witness ==
    /\ C14_Case
    /\ ~tfe[ValueString(Req.workspace_id)].current
    /\ last.op = "Update"
    /\ ~FoundNoCurrentVersion
    /\ \E i \in Indexes("StateVersions.Download") : calls[i].err = ErrResourceNotFound
    /\ HasError(last.diags)

\* ---------------------------------------------------------------------
\* C15: the Tagging string of a put with tags is the '&'-joined list of
\* one escaped key=value pair per entry of the mapping, and decoding it as
\* a URL query gives back exactly the mapping, in whatever order the pairs
\* were written
\* ---------------------------------------------------------------------
\* the pieces of s between the separators
RECURSIVE Split(_, _)
Split(s, sep) ==
    IF \A i \in 1..Len(s) : s[i] # sep THEN <<s>>
    ELSE LET i == CHOOSE i \in 1..Len(s) :
                      s[i] = sep /\ \A j \in 1..(i - 1) : s[j] # sep
         IN  <<SubSeq(s, 1, i - 1)>> \o Split(SubSeq(s, i + 1, Len(s)), sep)

HexDigits == {"0", "1", "2", "3", "4", "5", "6", "7", "8", "9",
              "A", "B", "C", "D", "E", "F"}

HexValue(d) ==
    CASE d = "0" -> 0 [] d = "1" -> 1 [] d = "2" -> 2 [] d = "3" -> 3
      [] d = "4" -> 4 [] d = "5" -> 5 [] d = "6" -> 6 [] d = "7" -> 7
      [] d = "8" -> 8 [] d = "9" -> 9 [] d = "A" -> 10 [] d = "B" -> 11
      [] d = "C" -> 12 [] d = "D" -> 13 [] d = "E" -> 14 [] d = "F" -> 15

\* the character with the given ASCII code
AsciiChar(n) ==
    CASE n = 32 -> " " [] n = 37 -> "%" [] n = 38 -> "&" [] n = 43 -> "+"
      [] n = 61 -> "=" [] OTHER -> "?"

\* URL query unescaping: '+' is a space, %XX the character with that code;
\* a '%' without two hex digits after it makes the whole text invalid
RECURSIVE QueryUnescape(_)
QueryUnescape(s) ==
    IF s = <<>> THEN <<>>
    ELSE IF Head(s) = "+" THEN <<" ">> \o QueryUnescape(Tail(s))
    ELSE IF Head(s) = "%" THEN
        IF Len(s) >= 3 /\ s[2] \in HexDigits /\ s[3] \in HexDigits
        THEN <<AsciiChar((HexValue(s[2]) * 16) + HexValue(s[3]))>>
                 \o QueryUnescape(SubSeq(s, 4, Len(s)))
        ELSE <<"invalid URL escape">>
    ELSE <<Head(s)>> \o QueryUnescape(Tail(s))

\* the key and the value of one pair: the text before and after the first '='
PairOf(seg) ==
    LET kv == Split(seg, "=")
    IN  <<QueryUnescape(kv[1]),
          QueryUnescape(SubSeq(seg, Len(kv[1]) + 2, Len(seg)))>>

\* the characters url.QueryEscape can write
EscapedChars == {"1", "a", "b", "c", "d", "x", "y", "+", "%"} \cup HexDigits

C15_Case == last.op = "putS3ObjectContents" /\ Indexes("S3.PutObject") # {}

C15_TagsRoundTrip ==
    C15_Case =>
        \A i \in Indexes("S3.PutObject") :
            LET tags == last.req[1].Tags
                segs == Split(calls[i].input.Tagging, "&")
            IN  /\ calls[i].input.HasTagging
                /\ Len(segs) = Cardinality(DOMAIN tags)
                /\ \A j \in 1..Len(segs) :
                      /\ Len(Split(segs[j], "=")) = 2
                      /\ \A n \in 1..Len(segs[j]) :
                            segs[j][n] \in EscapedChars \cup {"="}
                /\ {PairOf(segs[j]) : j \in 1..Len(segs)}
                      = {<<k, tags[k]>> : k \in DOMAIN tags}

\* all four tags have been written, the key "%" first and "a" last
C15_Witness ==
    /\ C15_Case
    /\ Cardinality(DOMAIN last.req[1].Tags) = 4
    /\ \E i \in Indexes("S3.PutObject") :
          /\ SubSeq(calls[i].input.Tagging, 1, 3) = <<"%", "2", "5">>
          /\ SubSeq(calls[i].input.Tagging, Len(calls[i].input.Tagging) - 2,
                    Len(calls[i].input.Tagging)) = <<"a", "=", "1">>

\* ---------------------------------------------------------------------
\* C16: a Create, Read, Update or Delete call that returns an error
\* diagnostic sets no record, and the persisted record is exactly what it
\* was before the call: none after a failed Create, the prior one after a
\* failed Read, Update or Delete; nothing changes the record while a call
\* is between its fetch and its return
\* ---------------------------------------------------------------------
C16_Case ==
    /\ last.op \in {"Create", "Read", "Update", "Delete"}
    /\ HasError(last.diags)

C16_ErrorKeepsRecord ==
    [][/\ C16_Case' => (~last'.set /\ tfstate' = tfstate)
       /\ pending' # <<>> => tfstate' = tfstate]_vars

\* a Create has failed at the put, after the state file was fetched
C16_Witness ==
    /\ C16_Case
    /\ last.op = "Create"
    /\ Fetched
    /\ \E i \in Indexes("S3.PutObject") : calls[i].err # ""
    /\ tfstate = <<>>

\* ---------------------------------------------------------------------
\* C17: a Create or Update that succeeds without being ignored leaves the
\* record in sync with the object and with the state file it downloaded;
\* as long as that is still the workspace's current state file and the
\* object is not written by anybody else the record stays in sync, and a
\* successful Read of a record in sync, with no change to the state file
\* since that Read downloaded it nor to the object since that Read got it,
\* returns both digests equal to each other and to the digests persisted
\* before it
\* ---------------------------------------------------------------------
\* the persisted record carries the digest of the current state file of
\* its workspace, and the object at its bucket and key holds that file
C17_InSync ==
    /\ tfstate # <<>>
    /\ Persisted.ignored = BoolValue(FALSE)
    /\ ValueString(Persisted.workspace_id) \in WorkspaceIds
    /\ <<ValueString(Persisted.bucket), ValueString(Persisted.key)>> \in ObjectLocs
    /\ LET ver == tfe[ValueString(Persisted.workspace_id)]
           obj == s3[<<ValueString(Persisted.bucket), ValueString(Persisted.key)>>]
       IN  /\ ver.current
           /\ obj.exists
           /\ obj.body = ver.state
           /\ Persisted.state_contents_sha256 = StringValue(KnownDigest(ver.state))
           /\ Persisted.bucket_contents_sha256 = StringValue(KnownDigest(ver.state))

C17_SyncedCase ==
    /\ last.op \in {"Create", "Update"}
    /\ ~HasError(last.diags)
    /\ last.set
    /\ ~IsTrue(Persisted.ignored)

C17_NoDriftAfterSync ==
    [][/\ (C17_SyncedCase' /\ tfe'[ValueString(Req'.workspace_id)]
                                    = Version(FetchedState')) => C17_InSync'
       /\ (C17_InSync /\ last'.op \in {"none", "Delete"}
              /\ tfe' = tfe /\ s3' = s3 /\ tfstate' # <<>>) => C17_InSync'
       /\ (C17_InSync /\ last'.op = "Read" /\ ~HasError(last'.diags)
              /\ tfe[ValueString(Req'.workspace_id)] = Version(FetchedState')
              /\ s3[ReqLoc'] = Object(GotBody')) =>
              /\ last'.set
              /\ tfstate'[1].state_contents_sha256 = tfstate'[1].bucket_contents_sha256
              /\ tfstate'[1].state_contents_sha256 = tfstate[1].state_contents_sha256
              /\ tfstate'[1].bucket_contents_sha256 = tfstate[1].bucket_contents_sha256
              /\ C17_InSync']_vars

\* a Read right after a sync to the second bucket has found no drift
C17_Witness ==
    /\ last.op = "Read"
    /\ Fetched
    /\ ~HasError(last.diags)
    /\ C17_InSync
    /\ Req.state_contents_sha256 = Persisted.state_contents_sha256
    /\ ValueString(Persisted.bucket) = "b2"
    /\ ~s3[<<"b1", "k1">>].exists

\* ---------------------------------------------------------------------
\* C18: Update issues no delete call; the only object it can change is the
\* one at the planned bucket and key, where it writes the fetched state
\* file, so after a change of bucket or key the object at the old place is
\* still in the store with the contents it had
\* ---------------------------------------------------------------------
C18_Case == last.op = "Update" /\ Validated /\ Fetched /\ ~HasError(last.diags)

\* the place the persisted record names
PersistedLoc == <<ValueString(Persisted.bucket), ValueString(Persisted.key)>>

C18_UpdateNeverDeletes ==
    [][last'.op = "Update" =>
        /\ Indexes("S3.DeleteObject")' = {}
        /\ \A loc \in ObjectLocs :
              s3'[loc] # s3[loc] =>
                  /\ C18_Case'
                  /\ loc = ReqLoc'
                  /\ s3'[loc] = Object(FetchedState')
        /\ C18_Case' => s3'[ReqLoc'] = Object(FetchedState')
        /\ (C18_Case' /\ PersistedLoc \in ObjectLocs /\ PersistedLoc # ReqLoc') =>
              s3'[PersistedLoc] = s3[PersistedLoc]]_vars

\* an Update has moved the record from bucket b1 to bucket b2: the new
\* object is written and the old one is still there
C18_Witness ==
    /\ C18_Case
    /\ ReqLoc = <<"b2", "k1">>
    /\ Persisted.id = StringValue("ws-1/b1/k1")
    /\ s3[<<"b2", "k1">>] = Object(FetchedState)
    /\ s3[<<"b1", "k1">>].exists

====
